---------------------------- MODULE Spec2Model ----------------------------
(***************************************************************************)
(* cargo-remote: model of src/main.rs.                                     *)
(*                                                                         *)
(* The program is one sequential run of main(): read the current           *)
(* directory, search upward for Cargo.toml, ask cargo for the workspace    *)
(* root, read the two config files, resolve the build server, rsync the    *)
(* project out, compute the relative sub directory with realpath, run the  *)
(* cargo command over ssh, rsync the artifacts and Cargo.lock back, and    *)
(* decide the exit code.                                                   *)
(*                                                                         *)
(* Strings are sequences of tokens (a token is a chunk of characters), so  *)
(* format!() is concatenation and trim() removes trailing newline tokens.  *)
(* Option<T> is a sequence of length at most one: None is << >> and        *)
(* Some(x) is <<x>>.                                                       *)
(***************************************************************************)
EXTENDS Integers, Sequences, FiniteSets, TLC

(***************************************************************************)
(* Bounds of the model.                                                    *)
(***************************************************************************)
\* deepest current directory below the filesystem root
MaxDepth == 3
\* largest exit code the remote cargo command is given (0 .. MaxCode)
MaxCode == 2

(***************************************************************************)
(* Exit codes of the program.                                              *)
(***************************************************************************)
ExitCurrentDir == -8
ExitNoManifest == -8
ExitNoRemote == -3
ExitRsyncTo == -4
ExitRelativePath == -9
ExitSsh == -5
ExitCopyBack == -6
ExitCopyLock == -7
\* exit(output.status.code().unwrap_or(1))
ExitDefaultBuildFailure == 1
\* a panicking Rust program (a failed unwrap(), a failed index) ends with 101
ExitPanic == 101
\* main returns
ExitOk == 0

(***************************************************************************)
(* Option<T>                                                               *)
(***************************************************************************)
None == << >>
Some(x) == <<x>>
IsSome(o) == Len(o) = 1
IsNone(o) == Len(o) = 0
Unwrap(o) == o[1]

(***************************************************************************)
(* Paths.  A path string is "/" or "/c1/c2/...": tokens "/", c1, "/", c2.  *)
(***************************************************************************)
DirNames == <<"a", "b", "c", "d", "e">>

RootDir == <<"/">>

RECURSIVE DirAt(_)
\* the directory at depth n of the chain /a/b/c/...
DirAt(n) == IF n = 0 THEN RootDir
            ELSE IF n = 1 THEN <<"/", DirNames[1]>>
            ELSE DirAt(n - 1) \o <<"/", DirNames[n]>>

\* number of components of a path string
Depth(p) == IF p = RootDir THEN 0 ELSE Len(p) \div 2

\* a parent that skips a directory
ParentSkipping(p) == IF p = RootDir THEN None
                     ELSE IF Len(p) <= 4 THEN Some(RootDir)
                     ELSE Some(SubSeq(p, 1, Len(p) - 4))

\* Path::parent
Parent(p) == IF p = RootDir THEN None
             ELSE IF Len(p) = 2 THEN Some(RootDir)
             ELSE Some(SubSeq(p, 1, Len(p) - 2))

IsPrefix(s, t) == Len(s) <= Len(t) /\ SubSeq(t, 1, Len(s)) = s

\* d is p or an ancestor directory of p
IsAncestorOrSelf(d, p) ==
    \/ d = p
    \/ d = RootDir
    \/ p # RootDir /\ IsPrefix(d \o <<"/">>, p)

Ancestors(p) == { DirAt(n) : n \in 0..Depth(p) }


RECURSIVE Components(_)
\* the component names of a path string
Components(p) == IF p = RootDir \/ p = << >> THEN << >>
                 ELSE Components(SubSeq(p, 1, Len(p) - 2)) \o <<p[Len(p)]>>

RECURSIVE CommonLen(_, _)
\* length of the longest common prefix of two component sequences
CommonLen(s, t) == IF s = << >> \/ t = << >> \/ Head(s) # Head(t) THEN 0
                   ELSE 1 + CommonLen(Tail(s), Tail(t))

RECURSIVE Join(_)
\* components joined by "/"
Join(cs) == IF cs = << >> THEN << >>
            ELSE IF Len(cs) = 1 THEN cs
            ELSE <<Head(cs), "/">> \o Join(Tail(cs))

\* what `realpath --relative-to=base path` prints for two existing directories
RelativeTo(base, path) ==
    LET b == Components(base)
        q == Components(path)
        k == CommonLen(b, q)
        ups == [i \in 1..(Len(b) - k) |-> ".."]
        rest == SubSeq(q, k + 1, Len(q))
    IN  IF ups \o rest = << >> THEN <<".">> ELSE Join(ups \o rest)

IsSpace(tok) == tok \in {"\n", " ", "\t"}

RECURSIVE TrimEnd(_)
TrimEnd(s) == IF s # << >> /\ IsSpace(s[Len(s)]) THEN TrimEnd(SubSeq(s, 1, Len(s) - 1))
              ELSE s

RECURSIVE TrimStart(_)
TrimStart(s) == IF s # << >> /\ IsSpace(Head(s)) THEN TrimStart(Tail(s)) ELSE s

\* str::trim
Trim(s) == TrimStart(TrimEnd(s))

\* the token standing for the decimal digits of DefaultHasher's digest of a
\* path: a deterministic function of the path's components and nothing else
\* (TLC has no 64-bit integers; the fold keeps the digest's determinism and
\* its finite range, in which two paths may collide)
CharCode(tok) == CASE tok = "a" -> 97 [] tok = "b" -> 98 [] tok = "c" -> 99
                   [] tok = "d" -> 100 [] tok = "e" -> 101 [] OTHER -> 47
RECURSIVE HashFold(_, _)
HashFold(h, s) == IF s = << >> THEN h
                  ELSE HashFold((h * 31 + CharCode(Head(s))) % 65536, Tail(s))
Hash(p) == ToString(HashFold(7, p))

(***************************************************************************)
(* Config files.  A file is missing, unparsable, or parses to a table; the *)
(* table's "remote" entry is absent, a non-string value, or a string.      *)
(***************************************************************************)
EmptyTable == [has_remote |-> FALSE, is_str |-> FALSE, str |-> << >>]
IntRemote == [has_remote |-> TRUE, is_str |-> FALSE, str |-> << >>]
StrRemote(s) == [has_remote |-> TRUE, is_str |-> TRUE, str |-> s]

MissingFile == [exists |-> FALSE, parses |-> FALSE, table |-> EmptyTable]
MalformedFile == [exists |-> TRUE, parses |-> FALSE, table |-> EmptyTable]
ParsedFile(t) == [exists |-> TRUE, parses |-> TRUE, table |-> t]

\* the files the project-local and the user-global location may hold
Files(host) == {MissingFile, MalformedFile, ParsedFile(EmptyTable), ParsedFile(IntRemote),
                ParsedFile(StrRemote(<< >>)), ParsedFile(StrRemote(host))}

CliHost == <<"cli-host">>
LocalHost == <<"local-host">>
GlobalHost == <<"global-host">>

\* fn config_from_file: None when the file cannot be read or parsed
config_from_file(file) ==
    IF ~file.exists THEN None
    ELSE IF ~file.parses THEN None
    ELSE Some(file.table)

\* c["remote"].as_str().map(String::from) on a parsed table: toml's Index
\* panics ("index not found") when the key is absent; as_str is None for a
\* value that is no string
RemoteOf(c) ==
    IF ~c.has_remote THEN [kind |-> "panic", val |-> << >>]
    ELSE IF ~c.is_str THEN [kind |-> "none", val |-> << >>]
    ELSE [kind |-> "some", val |-> c.str]

RECURSIVE FirstRemote(_)
\* configs.into_iter().flat_map(|config| config.and_then(...)).next(): the
\* closure runs on one config after the other until one yields a value
FirstRemote(cfgs) ==
    IF cfgs = << >> THEN [kind |-> "none", val |-> << >>]
    ELSE IF IsNone(Head(cfgs)) THEN FirstRemote(Tail(cfgs))
    ELSE LET r == RemoteOf(Unwrap(Head(cfgs)))
         IN  IF r.kind = "none" THEN FirstRemote(Tail(cfgs)) ELSE r

\* remote.or_else(|| ...): the files are consulted only without a CLI remote
ResolveBuildServer(cli, cfgs) ==
    IF IsSome(cli) THEN [kind |-> "some", val |-> Unwrap(cli)]
    ELSE FirstRemote(cfgs)

(***************************************************************************)
(* State.                                                                  *)
(***************************************************************************)
VARIABLES
    \* the environment: the working directory and the directories that hold
    \* a Cargo.toml
    cwd, manifests,
    \* Opts::Remote, parsed from the command line
    remote, copy_back, no_copy_lock, hidden,
    \* the locals of main
    pc, current_path, cargo_file_path, project_dir, configs, build_server,
    build_path, current_relative_path, output,
    \* what the run shows outside: the external commands it invoked, in
    \* order, the error it reported, and the code it ended with
    calls, error, exit_code

vars == <<cwd, manifests, remote, copy_back, no_copy_lock, hidden,
          pc, current_path, cargo_file_path, project_dir, configs, build_server,
          build_path, current_relative_path, output, calls, error, exit_code>>

env_vars == <<cwd, manifests>>
opt_vars == <<remote, copy_back, no_copy_lock, hidden>>

\* the options the model leaves at one value: the defaults of build_env,
\* rustup_default and env, and the command line "build --release"
build_env == <<"RUST_BACKTRACE=1">>
rustup_default == <<"stable">>
env == <<"~/.cargo/env">>
command == <<"build">>
options == <<"--release">>

FileName == <<"foo.bin">>

\* copy_back: Option<Option<String>>
CopyBackShapes == {None, Some(None), Some(Some(FileName))}

Init ==
    /\ \E n \in 0..MaxDepth :
          /\ cwd = DirAt(n)
          /\ manifests \in SUBSET Ancestors(DirAt(n))
    \* -r/--remote given or left out
    /\ \E left_out \in BOOLEAN : remote = IF left_out THEN None ELSE Some(CliHost)
    /\ copy_back \in CopyBackShapes
    /\ no_copy_lock \in BOOLEAN
    /\ hidden \in BOOLEAN
    /\ pc = "current_dir"
    /\ current_path = << >>
    /\ cargo_file_path = << >>
    /\ project_dir = << >>
    /\ configs = << >>
    /\ build_server = << >>
    /\ build_path = << >>
    /\ current_relative_path = << >>
    /\ output = None
    /\ calls = << >>
    /\ error = "none"
    /\ exit_code = 0

(***************************************************************************)
(* Ending the run.                                                         *)
(***************************************************************************)
\* the process ends with a code
Exit(kind, code) ==
    /\ pc' = "exited"
    /\ error' = kind
    /\ exit_code' = code

\* the code each fatal error ends the program with
FatalCode(kind) ==
    CASE kind = "current_dir" -> ExitCurrentDir
      [] kind = "no_manifest" -> ExitNoManifest
      [] kind = "no_remote" -> ExitNoRemote
      [] kind = "rsync_to" -> ExitRsyncTo
      [] kind = "relative_path" -> ExitRelativePath
      [] kind = "ssh" -> ExitSsh
      [] kind = "copy_back" -> ExitCopyBack
      [] kind = "copy_lock" -> ExitCopyLock
      [] kind \in {"panic_into_string", "panic_metadata", "panic_index"} -> ExitPanic

\* error!(..); exit(code), or a panic
Fatal(kind) == Exit(kind, FatalCode(kind))

Continue(next) ==
    /\ pc' = next
    /\ UNCHANGED <<error, exit_code>>

(***************************************************************************)
(* External commands: Command::output() spawns the child and waits for it. *)
(* A call is recorded when the spawn is tried and completed when the child *)
(* has ended.                                                              *)
(***************************************************************************)
Call(kind, program, args, state, code) ==
    [kind |-> kind, program |-> program, args |-> args, state |-> state, code |-> code]

Started(kind, program, args) == Append(calls, Call(kind, program, args, "running", 0))
SpawnFailed(kind, program, args) == Append(calls, Call(kind, program, args, "spawn_failed", 0))
Ended(state, code) == [calls EXCEPT ![Len(calls)].state = state, ![Len(calls)].code = code]

\* exit statuses a finished rsync is given: success and "partial transfer"
SyncStatuses == {0, 23}

\* Command::output() is Err only when the child cannot be spawned (or
\* waited for); a child that ran and ended with any status is Ok(Output)
OutputIsErr(call) == call.state = "spawn_failed"

(***************************************************************************)
(* Locating the project.                                                   *)
(***************************************************************************)
\* std::env::current_dir().unwrap_or_else(.. exit(-8))
CurrentDir ==
    /\ pc = "current_dir"
    /\ \E ok \in BOOLEAN :
          IF ok
          THEN /\ current_path' = cwd
               /\ Continue("into_string")
          ELSE /\ Fatal("current_dir")
               /\ UNCHANGED current_path
    /\ UNCHANGED <<env_vars, opt_vars, cargo_file_path, project_dir, configs,
                   build_server, build_path, current_relative_path, output, calls>>

\* current_path.clone().into_os_string().into_string().unwrap(): panics on a
\* path that is not UTF-8
StartSearch ==
    /\ pc = "into_string"
    /\ \E utf8 \in BOOLEAN :
          IF utf8
          THEN /\ cargo_file_path' = current_path
               /\ Continue("search")
          ELSE /\ Fatal("panic_into_string")
               /\ UNCHANGED cargo_file_path
    /\ UNCHANGED <<env_vars, opt_vars, current_path, project_dir, configs,
                   build_server, build_path, current_relative_path, output, calls>>

\* Path::new(format!("{}/Cargo.toml", dir)).exists()
ManifestExists(dir) == dir \in manifests

\* one round of the loop: stop at a directory with a Cargo.toml, else go to
\* the parent, else (no parent) exit(-8)
SearchManifest ==
    /\ pc = "search"
    /\ IF ManifestExists(cargo_file_path)
       THEN /\ Continue("metadata")
            /\ UNCHANGED cargo_file_path
       ELSE IF IsNone(Parent(cargo_file_path))
       THEN /\ Fatal("no_manifest")
            /\ UNCHANGED cargo_file_path
       ELSE /\ cargo_file_path' = Unwrap(Parent(cargo_file_path))
            /\ Continue("search")
    /\ UNCHANGED <<env_vars, opt_vars, current_path, project_dir, configs,
                   build_server, build_path, current_relative_path, output, calls>>

\* the workspace roots `cargo metadata` may report for the manifest in dir:
\* dir itself, or a directory above it whose Cargo.toml declares the
\* workspace the manifest belongs to
WorkspaceRoots(dir) == { d \in manifests : IsAncestorOrSelf(d, dir) }

\* metadata_cmd.exec().unwrap(), project_metadata.workspace_root
MetadataExec ==
    /\ pc = "metadata"
    /\ \E ok \in BOOLEAN :
          IF ok
          THEN /\ \E root \in WorkspaceRoots(cargo_file_path) : project_dir' = root
               /\ Continue("configs")
          ELSE /\ Fatal("panic_metadata")
               /\ UNCHANGED project_dir
    /\ UNCHANGED <<env_vars, opt_vars, current_path, cargo_file_path, configs,
                   build_server, build_path, current_relative_path, output, calls>>

(***************************************************************************)
(* Resolving the build server.                                             *)
(***************************************************************************)
\* let configs = vec![config_from_file(<project>/.cargo-remote.toml),
\*                    <xdg config file>.and_then(config_from_file)]
ReadConfigs ==
    /\ pc = "configs"
    /\ \E local \in Files(LocalHost), global \in Files(GlobalHost) :
          configs' = <<config_from_file(local), config_from_file(global)>>
    /\ Continue("build_server")
    /\ UNCHANGED <<env_vars, opt_vars, current_path, cargo_file_path, project_dir,
                   build_server, build_path, current_relative_path, output, calls>>

\* let build_server = remote.or_else(..).unwrap_or_else(.. exit(-3)); configs
\* is moved into the closure and gone afterwards
ResolveRemote ==
    /\ pc = "build_server"
    /\ LET r == ResolveBuildServer(remote, configs)
       IN  CASE r.kind = "some" ->
                  /\ build_server' = r.val
                  /\ Continue("rsync_to")
             [] r.kind = "none" ->
                  /\ Fatal("no_remote")
                  /\ UNCHANGED build_server
             [] r.kind = "panic" ->
                  /\ Fatal("panic_index")
                  /\ UNCHANGED build_server
    /\ configs' = << >>
    /\ UNCHANGED <<env_vars, opt_vars, current_path, cargo_file_path, project_dir,
                   build_path, current_relative_path, output, calls>>

(***************************************************************************)
(* The pipeline.                                                           *)
(***************************************************************************)
\* format!("~/remote-builds/{}/", hasher.finish())
BuildPath(dir) == <<"~/remote-builds/", Hash(dir), "/">>

\* the arguments of the outbound rsync
RsyncToArgs(dir, server, path) ==
    <<(<<"-a">>), (<<"--delete">>), (<<"--compress">>), (<<"--info=progress2">>),
      (<<"--exclude">>), (<<"target">>)>>
    \o (IF ~hidden THEN <<(<<"--exclude">>), (<<".*">>)>> ELSE << >>)
    \o <<(<<"--rsync-path">>), (<<"mkdir -p remote-builds && rsync">>),
         dir \o <<"/">>,
         server \o <<":">> \o path>>

\* the arguments both inbound rsyncs start with
RsyncBackFlags == <<(<<"-a">>), (<<"--delete">>), (<<"--compress">>), (<<"--info=progress2">>)>>

\* rsync_to. ... .output().unwrap_or_else(.. exit(-4)): the spawn
RsyncToSpawn ==
    /\ pc = "rsync_to"
    /\ build_path' = BuildPath(project_dir)
    /\ \E spawned \in BOOLEAN :
          LET args == RsyncToArgs(project_dir, build_server, build_path')
          IN  calls' = IF spawned THEN Started("rsync_to", "rsync", args)
                       ELSE SpawnFailed("rsync_to", "rsync", args)
    /\ IF OutputIsErr(calls'[Len(calls')])
       THEN Fatal("rsync_to")
       ELSE Continue("rsync_to_wait")
    /\ UNCHANGED <<env_vars, opt_vars, current_path, cargo_file_path, project_dir,
                   configs, build_server, current_relative_path, output>>

\* an outbound rsync that is spawned and not waited for
RsyncToNoWait ==
    /\ pc = "rsync_to_wait"
    /\ Continue("realpath")
    /\ UNCHANGED <<env_vars, opt_vars, current_path, cargo_file_path, project_dir,
                   configs, build_server, build_path, current_relative_path, output, calls>>

\* rsync_to: the child ends; its Output is dropped unread
RsyncToWait ==
    /\ pc = "rsync_to_wait"
    /\ \E status \in SyncStatuses : calls' = Ended("exited", status)
    /\ IF OutputIsErr(calls'[Len(calls')])
       THEN Fatal("rsync_to")
       ELSE Continue("realpath")
    /\ UNCHANGED <<env_vars, opt_vars, current_path, cargo_file_path, project_dir,
                   configs, build_server, build_path, current_relative_path, output>>

\* Command::new("realpath").arg("--relative-to=<project_dir>").arg(current_path)
\*   .output().unwrap_or_else(.. exit(-9)): the spawn
RealpathSpawn ==
    /\ pc = "realpath"
    /\ \E spawned \in BOOLEAN :
          LET args == <<(<<"--relative-to=">> \o project_dir), current_path>>
          IN  calls' = IF spawned THEN Started("realpath", "realpath", args)
                       ELSE SpawnFailed("realpath", "realpath", args)
    /\ IF OutputIsErr(calls'[Len(calls')])
       THEN Fatal("relative_path")
       ELSE Continue("realpath_wait")
    /\ UNCHANGED <<env_vars, opt_vars, current_path, cargo_file_path, project_dir,
                   configs, build_server, build_path, current_relative_path, output>>

\* realpath ends; String::from_utf8(stdout) is the printed path and its
\* newline (the path was UTF-8 at into_string, so from_utf8 is Ok)
RealpathWait ==
    /\ pc = "realpath_wait"
    /\ calls' = Ended("exited", 0)
    /\ current_relative_path' = RelativeTo(project_dir, current_path) \o <<"\n">>
    /\ Continue("ssh")
    /\ UNCHANGED <<env_vars, opt_vars, current_path, cargo_file_path, project_dir,
                   configs, build_server, build_path, output>>

\* format!("source {}; rustup default {}; cd {}; cd {}; {} cargo {} {}", ..)
BuildCommand(path, rel) ==
    <<"source ">> \o env \o <<"; rustup default ">> \o rustup_default
    \o <<"; cd ">> \o path \o <<"; cd ">> \o Trim(rel) \o <<"; ">> \o build_env
    \o <<" cargo ">> \o command \o <<" ">> \o options

\* Command::new("ssh").arg("-t").arg(&build_server).arg(build_command)
\*   .output().unwrap_or_else(.. exit(-5)): the spawn
SshSpawn ==
    /\ pc = "ssh"
    /\ \E spawned \in BOOLEAN :
          LET args == <<(<<"-t">>), build_server, BuildCommand(build_path, current_relative_path)>>
          IN  calls' = IF spawned THEN Started("ssh", "ssh", args)
                       ELSE SpawnFailed("ssh", "ssh", args)
    /\ IF OutputIsErr(calls'[Len(calls')])
       THEN Fatal("ssh")
       ELSE Continue("ssh_wait")
    /\ UNCHANGED <<env_vars, opt_vars, current_path, cargo_file_path, project_dir,
                   configs, build_server, build_path, current_relative_path, output>>

\* ssh ends, with an exit code or killed by a signal; output keeps its status
SshWait ==
    /\ pc = "ssh_wait"
    /\ \/ \E c \in 0..MaxCode :
             /\ calls' = Ended("exited", c)
             /\ output' = Some([code |-> Some(c)])
       \/ /\ calls' = Ended("signaled", 0)
          /\ output' = Some([code |-> None])
    /\ Continue("copy_back")
    /\ UNCHANGED <<env_vars, opt_vars, current_path, cargo_file_path, project_dir,
                   configs, build_server, build_path, current_relative_path>>

\* an artifact rsync that always takes the whole folder
CopyBackArgsWholeFolder(dir, server, path, file_name) ==
    RsyncBackFlags
    \o <<server \o <<":">> \o path \o <<"/target/">>,
         dir \o <<"/target/">>>>

\* the arguments of the artifact rsync; file_name is "" for the whole folder
CopyBackArgs(dir, server, path, file_name) ==
    RsyncBackFlags
    \o <<server \o <<":">> \o path \o <<"/target/">> \o file_name,
         dir \o <<"/target/">> \o file_name>>

\* if let Some(file_name) = copy_back { rsync ... .output()
\*   .unwrap_or_else(.. exit(-6)) }: the test and the spawn
CopyBackSpawn ==
    /\ pc = "copy_back"
    /\ IF IsSome(copy_back)
       THEN /\ \E spawned \in BOOLEAN :
                  LET file_name == IF IsSome(Unwrap(copy_back))
                                   THEN Unwrap(Unwrap(copy_back)) ELSE << >>
                      args == CopyBackArgs(project_dir, build_server, build_path, file_name)
                  IN  calls' = IF spawned THEN Started("copy_back", "rsync", args)
                               ELSE SpawnFailed("copy_back", "rsync", args)
            /\ IF OutputIsErr(calls'[Len(calls')])
               THEN Fatal("copy_back")
               ELSE Continue("copy_back_wait")
       ELSE /\ Continue("copy_lock")
            /\ UNCHANGED calls
    /\ UNCHANGED <<env_vars, opt_vars, current_path, cargo_file_path, project_dir,
                   configs, build_server, build_path, current_relative_path, output>>

\* the artifact rsync ends; its Output is dropped unread
CopyBackWait ==
    /\ pc = "copy_back_wait"
    /\ \E status \in SyncStatuses : calls' = Ended("exited", status)
    /\ IF OutputIsErr(calls'[Len(calls')])
       THEN Fatal("copy_back")
       ELSE Continue("copy_lock")
    /\ UNCHANGED <<env_vars, opt_vars, current_path, cargo_file_path, project_dir,
                   configs, build_server, build_path, current_relative_path, output>>

\* ExitStatus::success
Success(status) == status.code = Some(0)

\* a final code that forgets the remote command's own code
FinalCodeFlat(status) == IF ~Success(status) THEN ExitDefaultBuildFailure ELSE ExitOk

\* the code main ends with: exit(output.status.code().unwrap_or(1)) after a
\* build that did not succeed, else the return of main
FinalCode(status) ==
    IF ~Success(status)
    THEN IF IsSome(status.code) THEN Unwrap(status.code) ELSE ExitDefaultBuildFailure
    ELSE ExitOk

\* the arguments of the Cargo.lock rsync
CopyLockArgs(dir, server, path) ==
    RsyncBackFlags
    \o <<server \o <<":">> \o path \o <<"/Cargo.lock">>,
         dir \o <<"/Cargo.lock">>>>

\* a lock-file copy-back that is skipped after a failed build
CopiesLockOnSuccess == ~no_copy_lock /\ Success(Unwrap(output))

\* if !no_copy_lock
CopiesLock == ~no_copy_lock

\* if !no_copy_lock { rsync ... .output().unwrap_or_else(.. exit(-7)) }: the
\* test and the spawn
CopyLockSpawn ==
    /\ pc = "copy_lock"
    /\ IF CopiesLock
       THEN /\ \E spawned \in BOOLEAN :
                  LET args == CopyLockArgs(project_dir, build_server, build_path)
                  IN  calls' = IF spawned THEN Started("copy_lock", "rsync", args)
                               ELSE SpawnFailed("copy_lock", "rsync", args)
            /\ IF OutputIsErr(calls'[Len(calls')])
               THEN Fatal("copy_lock")
               ELSE Continue("copy_lock_wait")
       ELSE /\ Continue("status")
            /\ UNCHANGED calls
    /\ UNCHANGED <<env_vars, opt_vars, current_path, cargo_file_path, project_dir,
                   configs, build_server, build_path, current_relative_path, output>>

\* the Cargo.lock rsync ends; its Output is dropped unread
CopyLockWait ==
    /\ pc = "copy_lock_wait"
    /\ \E status \in SyncStatuses : calls' = Ended("exited", status)
    /\ IF OutputIsErr(calls'[Len(calls')])
       THEN Fatal("copy_lock")
       ELSE Continue("status")
    /\ UNCHANGED <<env_vars, opt_vars, current_path, cargo_file_path, project_dir,
                   configs, build_server, build_path, current_relative_path, output>>

\* if !output.status.success() { exit(..) } and the end of main
ExitDecision ==
    /\ pc = "status"
    /\ Exit("none", FinalCode(Unwrap(output)))
    /\ UNCHANGED <<env_vars, opt_vars, current_path, cargo_file_path, project_dir,
                   configs, build_server, build_path, current_relative_path, output, calls>>

Next ==
    \/ CurrentDir
    \/ StartSearch
    \/ SearchManifest
    \/ MetadataExec
    \/ ReadConfigs
    \/ ResolveRemote
    \/ RsyncToSpawn
    \/ RsyncToWait
    \/ RealpathSpawn
    \/ RealpathWait
    \/ SshSpawn
    \/ SshWait
    \/ CopyBackSpawn
    \/ CopyBackWait
    \/ CopyLockSpawn
    \/ CopyLockWait
    \/ ExitDecision

Spec == Init /\ [][Next]_vars

(***************************************************************************)
(* What the properties speak of.                                           *)
(***************************************************************************)
CallsOf(kind) == { i \in DOMAIN calls : calls[i].kind = kind }
Attempted(kind) == CallsOf(kind) # {}
\* the call ended without success: not spawned, a non-zero status, a signal
CallFailed(call) ==
    \/ call.state = "spawn_failed"
    \/ call.state = "signaled"
    \/ call.state = "exited" /\ call.code # 0
CallSucceeded(call) == call.state = "exited" /\ call.code = 0
Failed(kind) == \E i \in CallsOf(kind) : CallFailed(calls[i])
Succeeded(kind) == \E i \in CallsOf(kind) : CallSucceeded(calls[i])
\* the remote command ran to its end with exit code c
BuildExitedWith(c) ==
    \E i \in CallsOf("ssh") : calls[i].state = "exited" /\ calls[i].code = c
\* the remote command was executed (it ran and ended, however)
BuildExecuted ==
    \E i \in CallsOf("ssh") : calls[i].state \in {"exited", "signaled"}
Exited == pc = "exited"
InboundKinds == {"copy_back", "copy_lock"}

(***************************************************************************)
(* C1. If the outbound synchronization fails (the rsync cannot be spawned  *)
(* or ends with a non-zero status) the program ends at once with the       *)
(* outbound-sync exit code: no remote build, no artifact copy-back and no  *)
(* lock-file copy-back follows, and the sync is not tried again.           *)
(***************************************************************************)
C1_OutboundSyncFailureIsFatal ==
    Failed("rsync_to") =>
        /\ Exited
        /\ exit_code = ExitRsyncTo
        /\ ~Attempted("ssh")
        /\ ~Attempted("copy_back")
        /\ ~Attempted("copy_lock")
        /\ Cardinality(CallsOf("rsync_to")) = 1

(***************************************************************************)
(* C2. After a remote build that ended with a non-zero code c the program  *)
(* does not end there: the artifact copy-back (if requested) and the       *)
(* lock-file copy-back (unless suppressed) are attempted and the program   *)
(* then ends with code c; after a build and later steps that all succeeded *)
(* it ends with code 0.                                                    *)
(***************************************************************************)
\* C2 as stated
C2_BuildFailurePropagatedAlways ==
    \A c \in 1..MaxCode :
        (Exited /\ BuildExitedWith(c)) =>
            /\ IsSome(copy_back) => Attempted("copy_back")
            /\ ~no_copy_lock => Attempted("copy_lock")
            /\ exit_code = c

\* C2 as amended: after a remote build that ended with a non-zero code c
\* the artifact copy-back (if requested) is attempted, the lock-file
\* copy-back (unless suppressed) is attempted unless the artifact copy-back
\* ended the program, and the program ends with c unless a copy-back ended
\* it with its own fatal code; after a build and later steps that all
\* succeeded it ends with 0
C2_BuildFailurePropagated ==
    /\ \A c \in 1..MaxCode :
          (Exited /\ BuildExitedWith(c)) =>
              /\ IsSome(copy_back) => Attempted("copy_back")
              /\ (~no_copy_lock /\ error # "copy_back") => Attempted("copy_lock")
              /\ error \notin InboundKinds => (error = "none" /\ exit_code = c)
    /\ (Exited /\ BuildExitedWith(0)
          /\ (IsSome(copy_back) => Succeeded("copy_back"))
          /\ (~no_copy_lock => Succeeded("copy_lock")))
         => (error = "none" /\ exit_code = 0)
    /\ (Attempted("copy_back") \/ Attempted("copy_lock")) => BuildExecuted

C2_Witness ==
    /\ Exited
    /\ BuildExitedWith(2)
    /\ Succeeded("copy_back")
    /\ Succeeded("copy_lock")
    /\ exit_code = 2

(***************************************************************************)
(* C3. The build server is the CLI remote when one is given; otherwise it  *)
(* is the `remote` of the first config (project-local, then user-global)   *)
(* that exists, parses and holds a non-empty `remote`; a file that is      *)
(* missing, malformed, lacks the key or has an empty `remote` is skipped.  *)
(***************************************************************************)
\* whether a config yields a remote, in the claim's words
Yields(cfg) ==
    /\ IsSome(cfg)
    /\ Unwrap(cfg).has_remote
    /\ Unwrap(cfg).is_str
    /\ Unwrap(cfg).str # << >>

RECURSIVE FirstYielding(_)
FirstYielding(cfgs) ==
    IF cfgs = << >> THEN None
    ELSE IF Yields(Head(cfgs)) THEN Some(Unwrap(Head(cfgs)).str)
    ELSE FirstYielding(Tail(cfgs))

PrecedenceRemote(cli, cfgs) == IF IsSome(cli) THEN cli ELSE FirstYielding(cfgs)

C3_RemotePrecedence ==
    [][ (pc = "build_server" /\ IsSome(PrecedenceRemote(remote, configs)))
          => (pc' = "rsync_to" /\ build_server' = Unwrap(PrecedenceRemote(remote, configs))) ]_vars

(***************************************************************************)
(* C4. Without a CLI remote and with no config that yields a remote (each  *)
(* file absent, malformed, or with an absent or empty `remote`) the        *)
(* program ends with the no-remote exit code and invokes no outbound sync, *)
(* no remote shell and no inbound sync.                                    *)
(***************************************************************************)
\* absent or malformed, or parsed with an absent or empty `remote`
YieldsNothing(cfg) ==
    \/ IsNone(cfg)
    \/ ~Unwrap(cfg).has_remote
    \/ Unwrap(cfg).is_str /\ Unwrap(cfg).str = << >>

C4_NoRemoteIsFatal ==
    [][ (pc = "build_server" /\ IsNone(remote) /\ \A i \in DOMAIN configs : YieldsNothing(configs[i]))
          => (pc' = "exited" /\ exit_code' = ExitNoRemote /\ calls' = << >>) ]_vars

(***************************************************************************)
(* C5. A failed inbound transfer is fatal: a failed artifact copy-back     *)
(* (not spawned, or a non-zero status) ends the program with the           *)
(* artifact-copy-back code and no lock-file copy-back is attempted; a      *)
(* failed lock-file copy-back ends it with the lock-copy-back code.        *)
(***************************************************************************)
C5_InboundSyncFailureIsFatal ==
    /\ Failed("copy_back") =>
          (Exited /\ exit_code = ExitCopyBack /\ ~Attempted("copy_lock"))
    /\ Failed("copy_lock") =>
          (Exited /\ exit_code = ExitCopyLock)

(***************************************************************************)
(* C6. Each fatal error kind has an exit code of its own: the code a run   *)
(* ends with is the code of no other kind.                                 *)
(***************************************************************************)
\* the nine kinds of the claim, by the error the program reports
ClaimedKinds == {"panic_metadata", "no_remote", "rsync_to", "ssh", "copy_back",
                 "copy_lock", "current_dir", "relative_path", "no_manifest"}

C6_ExitCodeIdentifiesErrorKind ==
    (Exited /\ error \in ClaimedKinds) =>
        \A k \in ClaimedKinds \ {error} : exit_code # FatalCode(k)

(***************************************************************************)
(* C7. The external steps run one after the other, each started only when  *)
(* the one before has ended, in the order outbound sync, remote build,     *)
(* artifact copy-back (if requested), lock-file copy-back (unless          *)
(* suppressed), and then the exit code is decided; no step runs twice.     *)
(***************************************************************************)
Rank(kind) ==
    CASE kind = "rsync_to" -> 1
      [] kind = "realpath" -> 2
      [] kind = "ssh" -> 3
      [] kind = "copy_back" -> 4
      [] kind = "copy_lock" -> 5

KindsCalled == [i \in DOMAIN calls |-> calls[i].kind]

\* the steps of a run that got as far as deciding the exit code
FullPipeline ==
    <<"rsync_to", "realpath", "ssh">>
    \o (IF IsSome(copy_back) THEN <<"copy_back">> ELSE << >>)
    \o (IF ~no_copy_lock THEN <<"copy_lock">> ELSE << >>)

C7_StepsInOrder ==
    \* a step is started only after every earlier one has run and ended
    /\ \A i \in DOMAIN calls :
          i < Len(calls) => calls[i].state \in {"exited", "signaled"}
    \* in the order of the pipeline, each at most once
    /\ \A i, j \in DOMAIN calls :
          i < j => Rank(calls[i].kind) < Rank(calls[j].kind)
    \* the retrieval phase comes after the outbound sync and the build
    /\ (pc \in {"copy_back", "copy_back_wait", "copy_lock", "copy_lock_wait", "status"}
          \/ Attempted("copy_back") \/ Attempted("copy_lock"))
         => (Len(calls) >= 3 /\ SubSeq(KindsCalled, 1, 3) = <<"rsync_to", "realpath", "ssh">>)
    \* the exit code is decided when every step has been run and has ended
    /\ (pc = "status" \/ (Exited /\ error = "none"))
         => (/\ KindsCalled = FullPipeline
             /\ \A i \in DOMAIN calls : calls[i].state \in {"exited", "signaled"})

C7_Witness ==
    /\ Exited
    /\ error = "none"
    /\ KindsCalled = <<"rsync_to", "realpath", "ssh", "copy_back", "copy_lock">>

(***************************************************************************)
(* C8. With the manifest at exactly one ancestor A of the current          *)
(* directory (A may be the current directory), the project root that is    *)
(* synchronized is A and the sub directory the remote command changes into *)
(* is the current directory relative to A; the upward search ends, and it  *)
(* ends fatally when the filesystem root is passed without a manifest.     *)
(***************************************************************************)
\* the path string of p below its ancestor a: "." for a itself
Below(a, p) ==
    IF a = p THEN <<".">>
    ELSE IF a = RootDir THEN Tail(p)
    ELSE SubSeq(p, Len(a) + 2, Len(p))

OnlyManifestAt(a) == manifests = {a}

\* the search has stopped at a directory with a manifest
Located ==
    \/ pc \notin {"current_dir", "into_string", "search", "exited"}
    \/ Exited /\ error \notin {"current_dir", "panic_into_string", "no_manifest"}

C8_RootAndSubdirectory ==
    /\ [](\A a \in Ancestors(cwd) : OnlyManifestAt(a) =>
            \* the search stops at A, and only there
            /\ Located => cargo_file_path = a
            /\ error # "no_manifest"
            /\ project_dir # << >> => project_dir = a
            \* A is what is synchronized
            /\ \A i \in CallsOf("rsync_to") :
                  calls[i].args[Len(calls[i].args) - 1] = a \o <<"/">>
            \* the remote command changes into cwd relative to A
            /\ \A i \in CallsOf("ssh") :
                  calls[i].args[3] = BuildCommand(build_path, Below(a, cwd))
            /\ current_relative_path # << >> => Trim(current_relative_path) = Below(a, cwd))
    \* without any manifest the search ends with the fatal error
    /\ [](manifests = {} => (~Located /\ (error = "no_manifest" => cargo_file_path = RootDir)))
    /\ [](error = "no_manifest" => manifests = {})
    \* every round of the search that goes on moves one directory up
    /\ [][ (pc = "search" /\ pc' = "search")
             => (Depth(cargo_file_path') = Depth(cargo_file_path) - 1
                   /\ IsAncestorOrSelf(cargo_file_path', cwd)) ]_vars

C8_Witness ==
    /\ OnlyManifestAt(DirAt(1))
    /\ cwd = DirAt(3)
    /\ project_dir = DirAt(1)
    /\ Trim(current_relative_path) = <<"b", "/", "c">>
    /\ Attempted("ssh")

(***************************************************************************)
(* C9. The artifact copy-back follows the request: none without            *)
(* --copy-back; with --copy-back alone one sync of the whole remote        *)
(* target directory to the local one; with --copy-back=<name> one sync     *)
(* from <remote build dir>/target/<name> to <project root>/target/<name>.  *)
(***************************************************************************)
\* the run is past the artifact copy-back
PastCopyBack ==
    \/ pc \in {"copy_back_wait", "copy_lock", "copy_lock_wait", "status"}
    \/ Exited /\ error \in {"none", "copy_back", "copy_lock"}

\* where the outbound sync put the project: "<server>:<build path>"
RemoteBuildDir == LET out == calls[1].args IN out[Len(out)]

C9_CopyBackShape ==
    /\ IsNone(copy_back) => ~Attempted("copy_back")
    /\ Cardinality(CallsOf("copy_back")) <= 1
    /\ (IsSome(copy_back) /\ PastCopyBack) => Cardinality(CallsOf("copy_back")) = 1
    /\ \A i \in CallsOf("copy_back") :
          LET args == calls[i].args
              src == args[Len(args) - 1]
              dst == args[Len(args)]
          IN  /\ calls[i].program = "rsync"
              /\ calls[1].kind = "rsync_to"
              /\ copy_back = Some(None) =>
                    /\ src = RemoteBuildDir \o <<"/target/">>
                    /\ dst = project_dir \o <<"/target/">>
              /\ copy_back = Some(Some(FileName)) =>
                    /\ src = RemoteBuildDir \o <<"/target/">> \o FileName
                    /\ dst = project_dir \o <<"/target/">> \o FileName
                    /\ src[Len(src)] = FileName[1]
                    /\ dst[Len(dst)] = FileName[1]

C9_Witness ==
    /\ copy_back = Some(Some(FileName))
    /\ Succeeded("copy_back")
    /\ Exited

(***************************************************************************)
(* C10. With --no-copy-lock the lock-file sync is never attempted; without *)
(* it the lock-file sync is attempted in every run in which the remote     *)
(* build command was executed, whatever its status.                        *)
(***************************************************************************)
\* C10 as stated
C10_LockCopiedAfterEveryBuild ==
    /\ no_copy_lock => ~Attempted("copy_lock")
    /\ (~no_copy_lock /\ Exited /\ BuildExecuted) => Attempted("copy_lock")

\* C10 as amended: with --no-copy-lock the lock-file sync is never
\* attempted; without it, it is attempted in every run in which the remote
\* build command was executed and the artifact copy-back did not end the
\* program first
C10_LockCopiedUnlessCopyBackFatal ==
    /\ no_copy_lock => ~Attempted("copy_lock")
    /\ (~no_copy_lock /\ Exited /\ BuildExecuted /\ error # "copy_back")
          => Attempted("copy_lock")

C10_Witness ==
    /\ ~no_copy_lock
    /\ Exited
    /\ \E c \in 1..MaxCode : BuildExitedWith(c)
    /\ Attempted("copy_lock")

=============================================================================
